---- MODULE Spec2Model ----
(***************************************************************************)
(* Peepable<I>: a wrapper over an iterator that eagerly loads the next     *)
(* item so that peep() works on a shared reference (src/src/lib.rs).       *)
(*                                                                         *)
(* Option<T> is modelled as a sequence of length at most one:              *)
(*   None == << >>,  Some(x) == << x >>.                                   *)
(* The wrapped iterator is an instrumented producer: a script of pull      *)
(* results, a position, and the log of the results it has handed out.      *)
(* A script without None is an ordinary finite producer (vec::IntoIter,    *)
(* a range); a script with a None before an item is a producer that        *)
(* resumes after having signalled exhaustion.  Past the end of its script  *)
(* a producer returns None for ever.                                       *)
(***************************************************************************)
EXTENDS Integers, Sequences, FiniteSets, TLC

VARIABLES phase, iter, next, ret, pc, obs, peepLog, seen

vars == <<phase, iter, next, ret, pc, obs, peepLog, seen>>

\* ---- bounds --------------------------------------------------------------
MaxItem == 3
MaxLen == 3
NumReaders == 2
MaxPeeps == 2

Items == 0..MaxItem
Readers == 1..NumReaders
MaxNextCalls == MaxLen + 3

\* ---- Option<T> -----------------------------------------------------------
None == << >>
Some(x) == << x >>
OptionItems == {None} \cup {Some(x) : x \in Items}

Last(s) == s[Len(s)]

\* ---- the wrapped producer (I: Iterator) ------------------------------------
\* A vector's iterator, or any producer given by its pull results; a trailing
\* None is left out because a producer past the end of its script returns
\* None anyway.
VecScripts == {s \in UNION {[1..n -> OptionItems] : n \in 0..MaxLen} :
                 s = << >> \/ Last(s) # None}

\* The ranges lo..hi over the items, such as 0..4 and 1..5 of the tests.
Range(lo, hi) == [i \in 1..(hi - lo) |-> Some(lo + i - 1)]
RangeScripts == {Range(lo, hi) : lo \in Items, hi \in 0..(MaxItem + 1)}

Scripts == VecScripts \cup RangeScripts

\* A producer that, once it has signalled exhaustion, keeps signalling it.
WellBehaved(s) == \A i \in 1..Len(s) : s[i] # None

\* self.iter.next(): hand out the next pull result and move on.
IterNext(it) ==
  IF it.pos < Len(it.script)
    THEN [item |-> it.script[it.pos + 1],
          iter |-> [it EXCEPT !.pos = @ + 1,
                               !.log = Append(@, it.script[it.pos + 1])]]
    ELSE [item |-> None,
          iter |-> [it EXCEPT !.log = Append(@, None)]]

\* ---- Peepable::new -------------------------------------------------------
\* A constructor that does not prime the slot (lazy, as std's Peekable).
PeepableNewLazy(it) == [iter |-> it, next |-> None]

PeepableNew(it) ==
  LET p == IterNext(it)
  IN  [iter |-> p.iter, next |-> p.item]

\* ---- Iterator::next for Peepable -----------------------------------------
\* Returns the freshly pulled value and never exchanges it with the slot.
PeepableNextNoSwap(self) ==
  LET p == IterNext(self.iter)
  IN  [ret |-> p.item, self |-> [iter |-> p.iter, next |-> self.next]]

\* Short-circuits on an empty slot without pulling the producer (fusing).
PeepableNextFused(self) ==
  IF self.next = None
    THEN [ret |-> None, self |-> self]
    ELSE LET p == IterNext(self.iter)
         IN  [ret |-> self.next, self |-> [iter |-> p.iter, next |-> p.item]]

\* Reports exhaustion as soon as the producer does, losing the buffered item.
PeepableNextDropLast(self) ==
  LET p == IterNext(self.iter)
  IN  [ret  |-> IF p.item = None THEN None ELSE self.next,
       self |-> [iter |-> p.iter, next |-> p.item]]

\* Exchanges only when the pull gave an item, so the last item stays buffered.
PeepableNextSticky(self) ==
  LET p == IterNext(self.iter)
  IN  [ret  |-> self.next,
       self |-> [iter |-> p.iter,
                 next |-> IF p.item = None THEN self.next ELSE p.item]]

\* Pulls twice and keeps only the second result (two items of lookahead).
PeepableNextSkip(self) ==
  LET p == IterNext(self.iter)
      q == IterNext(p.iter)
  IN  [ret |-> self.next, self |-> [iter |-> q.iter, next |-> q.item]]

PeepableNext(self) ==
  LET p == IterNext(self.iter)
  IN  [ret |-> self.next, self |-> [iter |-> p.iter, next |-> p.item]]

\* ---- Peepable::peep ------------------------------------------------------
\* Looks past the slot at what the producer would hand out next.
PeepablePeepAhead(self) ==
  IF self.iter.pos < Len(self.iter.script)
    THEN self.iter.script[self.iter.pos + 1]
    ELSE None

PeepablePeep(self) ==
  IF self.next # None THEN Some(self.next[1]) ELSE None

Self == [iter |-> iter, next |-> next]

\* ---- state machine -------------------------------------------------------
Init ==
  /\ phase = "start"
  /\ iter \in {[script |-> s, pos |-> 0, log |-> << >>] : s \in Scripts}
  /\ next = None
  /\ ret = << >>
  /\ pc = [r \in Readers |-> "idle"]
  /\ obs = [r \in Readers |-> None]
  /\ peepLog = << >>
  /\ seen = << >>

\* A constructor that unwraps the first pull and so fails on an empty producer.
NewUnwrap ==
  /\ phase = "start"
  /\ LET p == IterNext(iter)
     IN  /\ iter' = p.iter
         /\ next' = p.item
         /\ phase' = IF p.item = None THEN "panicked" ELSE "ready"
  /\ UNCHANGED <<ret, pc, obs, peepLog, seen>>

\* let peeper = Peepable::new(iter);
New ==
  /\ phase = "start"
  /\ LET w == PeepableNew(iter)
     IN  /\ iter' = w.iter
         /\ next' = w.next
  /\ phase' = "ready"
  /\ UNCHANGED <<ret, pc, obs, peepLog, seen>>

\* peeper.next(): needs &mut self, so no shared borrow may be alive.
IteratorNext ==
  /\ phase = "ready"
  /\ \A r \in Readers : pc[r] = "idle"
  /\ Len(ret) < MaxNextCalls
  /\ LET n == PeepableNext(Self)
     IN  /\ iter' = n.self.iter
         /\ next' = n.self.next
         /\ ret' = Append(ret, n.ret)
  /\ seen' = IF peepLog = << >> THEN << >> ELSE << Last(peepLog) >>
  /\ peepLog' = << >>
  /\ UNCHANGED <<phase, pc, obs>>

\* A reader takes &self and enters peep().
PeepCall(r) ==
  /\ phase = "ready"
  /\ pc[r] = "idle"
  /\ Len(peepLog) + Cardinality({q \in Readers : pc[q] = "peeping"}) < MaxPeeps
  /\ pc' = [pc EXCEPT ![r] = "peeping"]
  /\ UNCHANGED <<phase, iter, next, ret, obs, peepLog, seen>>

\* A peep that takes the value out of the slot (Option::take).
PeepReturnTake(r) ==
  /\ pc[r] = "peeping"
  /\ obs' = [obs EXCEPT ![r] = PeepablePeep(Self)]
  /\ peepLog' = Append(peepLog, PeepablePeep(Self))
  /\ next' = None
  /\ pc' = [pc EXCEPT ![r] = "holding"]
  /\ UNCHANGED <<phase, iter, ret, seen>>

\* A peep that pulls the producer on demand (lazy lookahead).
PeepReturnPull(r) ==
  /\ pc[r] = "peeping"
  /\ LET p == IterNext(iter)
     IN  /\ obs' = [obs EXCEPT ![r] = p.item]
         /\ peepLog' = Append(peepLog, p.item)
         /\ iter' = p.iter
  /\ pc' = [pc EXCEPT ![r] = "holding"]
  /\ UNCHANGED <<phase, next, ret, seen>>

\* peep() matches on self.next and returns the view; the caller keeps it.
PeepReturn(r) ==
  /\ pc[r] = "peeping"
  /\ obs' = [obs EXCEPT ![r] = PeepablePeep(Self)]
  /\ peepLog' = Append(peepLog, PeepablePeep(Self))
  /\ pc' = [pc EXCEPT ![r] = "holding"]
  /\ UNCHANGED <<phase, iter, next, ret, seen>>

\* The reader drops the view, ending its shared borrow.
Release(r) ==
  /\ pc[r] = "holding"
  /\ pc' = [pc EXCEPT ![r] = "idle"]
  /\ obs' = [obs EXCEPT ![r] = None]
  /\ UNCHANGED <<phase, iter, next, ret, peepLog, seen>>

Next ==
  \/ New
  \/ IteratorNext
  \/ \E r \in Readers : PeepCall(r)
  \/ \E r \in Readers : PeepReturn(r)
  \/ \E r \in Readers : Release(r)

Spec == Init /\ [][Next]_vars

\* while let Some(x) = peeper.next() { .. }: a consumer that advances until
\* next() has returned None (a for-loop, sum(), collect()).
Drain ==
  /\ \A i \in 1..Len(ret) : ret[i] # None
  /\ IteratorNext

DrainNext ==
  \/ New
  \/ Drain

\* The consumer is sequential code: it keeps running while it has a step.
DrainSpec == Init /\ [][DrainNext]_vars /\ WF_vars(DrainNext)

TypeOK ==
  /\ phase \in {"start", "ready"}
  /\ next \in OptionItems
  /\ \A i \in 1..Len(ret) : ret[i] \in OptionItems
  /\ \A r \in Readers : pc[r] \in {"idle", "peeping", "holding"}

\* ---- helpers for the properties ------------------------------------------
Ready == phase = "ready"
Script == iter.script
Holding(r) == pc[r] = "holding"

\* The items of a sequence of pull results up to its first None: what a
\* for-loop or an adaptor chain gets out of an iterator.
RECURSIVE Taken(_)
Taken(s) ==
  IF s = << >> \/ Head(s) = None THEN << >>
  ELSE << Head(s)[1] >> \o Taken(Tail(s))

\* iter.filter(|x| x > &1).map(|x| x * x).sum()  (tests::has_iterator_tools)
RECURSIVE FilterMapSum(_)
FilterMapSum(s) ==
  IF s = << >> THEN 0
  ELSE (IF Head(s) > 1 THEN Head(s) * Head(s) ELSE 0) + FilterMapSum(Tail(s))

IsPrefix(a, b) == Len(a) <= Len(b) /\ SubSeq(b, 1, Len(a)) = a

\* next() has returned None at least once.
Drained == \E i \in 1..Len(ret) : ret[i] = None
FirstNone == CHOOSE i \in 1..Len(ret) : ret[i] = None /\ \A j \in 1..(i - 1) : ret[j] # None

\* Every peep result that is currently on record since the last next().
AllPeepsAre(v) ==
  /\ PeepablePeep(Self) = v
  /\ \A i \in 1..Len(peepLog) : peepLog[i] = v
  /\ \A r \in Readers : Holding(r) => obs[r] = v

\* ---- C1 ------------------------------------------------------------------
\* C1: whenever next() is called, it returns exactly what peep() shows in the
\* state before the call (the content of the slot), and in particular what
\* the last peep() made before the call returned.
C1_AdvanceReturnsPeeped ==
  [][Len(ret') = Len(ret) + 1 =>
        /\ Last(ret') = PeepablePeep(Self)
        /\ peepLog # << >> => Last(ret') = Last(peepLog)]_vars

C1_Witness ==
  /\ Ready /\ ret # << >> /\ seen # << >>
  /\ seen[1] # None /\ Last(ret) = seen[1]

\* ---- C2 ------------------------------------------------------------------
\* C2: a peep() leaves the slot and the producer (position and pull log)
\* unchanged, and all peeps made in succession without a next() in between
\* return the same result.
C2_PeepIsPureRead ==
  [][Len(peepLog') = Len(peepLog) + 1 =>
        /\ next' = next
        /\ iter' = iter
        /\ \A i \in 1..Len(peepLog') : peepLog'[i] = peepLog'[1]]_vars

C2_Witness ==
  /\ Ready /\ Len(peepLog) >= 2
  /\ peepLog[1] # None /\ peepLog[2] = peepLog[1]

\* ---- C3 ------------------------------------------------------------------
\* C3: after new() on a producer whose first pull gives an item, and before
\* any next(), every peep() returns that first item.
C3_EagerPriming ==
  (Ready /\ ret = << >> /\ Script # << >> /\ Script[1] # None)
    => AllPeepsAre(Script[1])

C3_Witness ==
  /\ Ready /\ ret = << >> /\ Script # << >>
  /\ peepLog # << >> /\ peepLog[1] = Script[1] /\ peepLog[1] # None

\* ---- C4 ------------------------------------------------------------------
\* C4: for a producer given by its list of items, after next() has returned
\* the i-th item, every peep() shows the (i+1)-th item, or None when the
\* list has no (i+1)-th item.
C4_ShiftInvariant ==
  (Ready /\ WellBehaved(Script) /\ ret # << >> /\ Last(ret) # None)
    => LET i == Len(ret)
       IN  /\ i <= Len(Script)
           /\ Last(ret) = Script[i]
           /\ AllPeepsAre(IF i + 1 <= Len(Script) THEN Script[i + 1] ELSE None)

C4_Witness ==
  /\ Ready /\ WellBehaved(Script) /\ ret # << >> /\ Last(ret) # None
  /\ Len(ret) < Len(Script)
  /\ peepLog # << >> /\ peepLog[1] = Script[Len(ret) + 1]

\* ---- C5 ------------------------------------------------------------------
\* C5: the items next() returns up to its first None are the items the
\* producer itself yields up to its first None, in the same order, and so
\* the filter/map/sum fold over them is the same; peeps in between do not
\* matter.
C5_TransparentSequence ==
  Ready =>
    /\ IsPrefix(Taken(ret), Taken(Script))
    /\ Drained =>
         /\ Taken(ret) = Taken(Script)
         /\ FilterMapSum(Taken(ret)) = FilterMapSum(Taken(Script))

C5_Witness ==
  /\ Ready /\ Drained /\ seen # << >>
  /\ Script = << Some(0), Some(1), Some(2), Some(3) >>
  /\ Taken(ret) = << 0, 1, 2, 3 >>
  /\ FilterMapSum(Taken(ret)) = 13

\* ---- C6 ------------------------------------------------------------------
\* C6: for a producer that stays exhausted, once next() has returned None
\* every later next() returns None and every later peep() returns None.
C6_ExhaustionTerminal ==
  (Ready /\ WellBehaved(Script) /\ Drained) =>
    /\ \A j \in FirstNone..Len(ret) : ret[j] = None
    /\ AllPeepsAre(None)
    /\ (Len(ret) > FirstNone /\ seen # << >>) => seen[1] = None

C6_Witness ==
  /\ Ready /\ WellBehaved(Script) /\ Script # << >> /\ Drained
  /\ Len(ret) > FirstNone /\ seen # << >> /\ peepLog # << >>

\* ---- C7 ------------------------------------------------------------------
\* C7: no operation ends in an error: construction always succeeds, every
\* result of next() and peep() is an item or None; on an empty producer the
\* wrapper is exhausted from the start and peep() and next() return None.
C7_EmptyIsNotAnError ==
  /\ phase \in {"start", "ready"}
  /\ \A i \in 1..Len(ret) : ret[i] \in OptionItems
  /\ \A i \in 1..Len(peepLog) : peepLog[i] \in OptionItems
  /\ (Ready /\ Script = << >>) =>
       /\ next = None
       /\ AllPeepsAre(None)
       /\ \A i \in 1..Len(ret) : ret[i] = None

C7_Witness ==
  /\ Ready /\ Script = << >>
  /\ ret # << >> /\ seen = << None >> /\ peepLog # << >>

\* ---- C8 ------------------------------------------------------------------
\* C8: any step of a reader (entering peep, returning from it, dropping the
\* view) leaves the wrapper as it was, and all readers that hold a view see
\* the current content of the slot, hence the same value.
C8_ConcurrentPeeps ==
  [][pc' # pc =>
        /\ iter' = iter
        /\ next' = next
        /\ \A r \in Readers :
             pc'[r] = "holding" =>
               obs'[r] = PeepablePeep([iter |-> iter', next |-> next'])
        /\ \A r, q \in Readers :
             (pc'[r] = "holding" /\ pc'[q] = "holding") => obs'[r] = obs'[q]]_vars

C8_Witness ==
  \E r, q \in Readers :
    /\ r # q /\ Holding(r) /\ Holding(q)
    /\ obs[r] # None /\ obs[r] = obs[q] /\ obs[r] = next

\* ---- C9 ------------------------------------------------------------------
\* C9: once constructed, the slot is empty exactly when the most recent pull
\* of the producer returned None; for a producer of exactly n items the slot
\* is empty exactly when at least n next() calls have been made.
C9_BufferExhaustion ==
  Ready =>
    /\ (next = None) <=> (Last(iter.log) = None)
    /\ WellBehaved(Script) => ((next = None) <=> (Len(ret) >= Len(Script)))

C9_Witness ==
  /\ Ready /\ WellBehaved(Script) /\ Len(Script) >= 2
  /\ Len(ret) = Len(Script) /\ next = None

\* ---- C10 -----------------------------------------------------------------
\* C10: the producer has been pulled 0 times before construction and
\* 1 + (number of next() calls) times afterwards, whatever peeps were made.
C10_PullAccounting ==
  /\ phase = "start" => Len(iter.log) = 0
  /\ Ready => Len(iter.log) = 1 + Len(ret)

C10_Witness ==
  /\ Ready /\ Len(ret) >= 2 /\ ret[Len(ret) - 1] = None
  /\ seen # << >> /\ peepLog # << >>
  /\ Len(iter.log) = 1 + Len(ret)

\* ---- helpers for the later properties ---------------------------------------
\* The result of the k-th pull of a producer with script s.
PullResult(s, k) == IF k <= Len(s) THEN s[k] ELSE None

\* The items in a sequence of pull results, in order, the Nones left out.
RECURSIVE Flatten(_)
Flatten(s) == IF s = << >> THEN << >> ELSE Head(s) \o Flatten(Tail(s))

\* ---- C11 -----------------------------------------------------------------
\* C11: for a producer of exactly n items the i-th next() returns the i-th
\* item for i <= n and None for i > n, and a consumer that advances until it
\* sees None ends up having received the n items followed by one None, the
\* None coming from call n+1.
C11_DrainingTerminates ==
  /\ [](WellBehaved(Script) =>
          \A i \in 1..Len(ret) : ret[i] = PullResult(Script, i))
  /\ <>[](/\ Ready
          /\ Drained
          /\ Len(ret) = Len(Taken(Script)) + 1
          /\ WellBehaved(Script) => ret = Script \o << None >>)

C11_Witness ==
  /\ Ready /\ Len(ret) = 4
  /\ Script = << Some(1), Some(2), Some(3) >>
  /\ ret = << Some(1), Some(2), Some(3), None >>

\* ---- C12 -----------------------------------------------------------------
\* C12: for any producer the k-th next() returns the result of the producer's
\* k-th pull and every peep() after k next() calls shows the result of pull
\* k+1; the pulls are made in script order, one per call, also after a None.
C12_NoFusing ==
  Ready =>
    /\ Len(iter.log) = Len(ret) + 1
    /\ \A k \in 1..Len(iter.log) : iter.log[k] = PullResult(Script, k)
    /\ \A k \in 1..Len(ret) : ret[k] = PullResult(Script, k)
    /\ AllPeepsAre(PullResult(Script, Len(ret) + 1))

\* A resuming producer: next() returned None and a later next() an item that
\* a peep had shown after the wrapper had been exhausted.
C12_Witness ==
  /\ Ready
  /\ \E i \in 1..Len(ret) : i < Len(ret) /\ ret[i] = None
  /\ Last(ret) # None
  /\ seen = << Last(ret) >>

\* ---- C13 -----------------------------------------------------------------
\* C13: the items taken out of the producer so far are exactly the items
\* already returned by next() followed by the content of the slot (no item
\* or one item), in the same order.
C13_LookaheadConservation ==
  /\ Flatten(iter.log) = Flatten(ret) \o next
  /\ Len(Flatten(iter.log)) - Len(Flatten(ret)) \in {0, 1}

C13_Witness ==
  /\ Ready /\ Len(Flatten(ret)) >= 2 /\ next # None
  /\ Flatten(iter.log) = Flatten(ret) \o next
  /\ seen # << >>

====
